---- MODULE Spec2Model ----
(***************************************************************************)
(* A model of src/udrive_sync.py, the SSD/HDD-aware rsync directory sync.  *)
(*                                                                         *)
(* Four specifications share the module:                                   *)
(*   SpecCmd    build_rsync_cmd as a pure function of its five inputs      *)
(*   SpecDev    the device classifier (_device_for_path,                   *)
(*              _block_name_from_device, is_rotational, is_ssd_for_path)   *)
(*   SpecStream run_rsync_stream against a child writing to two pipes      *)
(*   Spec       main / sync_directories / parallel_rsync_split             *)
(*                                                                         *)
(* Text is modelled two ways.  A command-line argument is a record         *)
(* [stem, slashes]: the "/"-separated components of the text without its   *)
(* trailing slashes, and the number of trailing slashes.  A device name is *)
(* a sequence of one-character strings, because the classifier works on    *)
(* characters (startswith, split, rstrip, a regular expression).           *)
(***************************************************************************)
EXTENDS Integers, Sequences, FiniteSets, TLC

VARIABLES
    \* ---- SpecCmd: one call of build_rsync_cmd
    bc_pc, bc_in, bc_out,
    \* ---- SpecDev: one call of is_ssd_for_path
    dv_pc, dv_env, dv_device, dv_block, dv_rot, dv_ssd,
    \* ---- SpecStream: one call of run_rsync_stream
    rs_pc, child_prog, child_ip, child_state, child_rc,
    out_pipe, err_pipe, rs_stdout, rs_stderr, rs_ret,
    \* ---- Spec: one process run, main() calling sync_directories()
    pc, src_exists, dst_exists, mode, parallel_workers,
    pre_audit, src_ssd, dst_ssd, chunks, next_chunk, tasks, ret, first_ret,
    post_audit, result, exit_code, notes, notify_env, notify_failed,
    prev_run,
    \* ---- SpecSplit: one split of a source listing into worker chunks
    sp_pc, sp_listing, sp_workers, sp_chunks,
    \* ---- SpecAudit: one call of get_size_and_count on a tree
    au_pc, au_tree, au_env, au_out

cmdVars    == <<bc_pc, bc_in, bc_out>>
devVars    == <<dv_pc, dv_env, dv_device, dv_block, dv_rot, dv_ssd>>
streamVars == <<rs_pc, child_prog, child_ip, child_state, child_rc,
                out_pipe, err_pipe, rs_stdout, rs_stderr, rs_ret>>
syncVars   == <<pc, src_exists, dst_exists, mode,
                parallel_workers, pre_audit, src_ssd, dst_ssd, chunks,
                next_chunk, tasks, ret, first_ret, post_audit, result,
                exit_code, notes, notify_failed, prev_run, notify_env>>
splitVars  == <<sp_pc, sp_listing, sp_workers, sp_chunks>>
auditVars  == <<au_pc, au_tree, au_env, au_out>>
vars       == <<cmdVars, devVars, streamVars, syncVars, splitVars,
                auditVars>>

(***************************************************************************)
(* Generic helpers                                                         *)
(***************************************************************************)
Range(s) == {s[i] : i \in 1..Len(s)}

\* list.index(x): the first position of x in s, 0 when x is absent
\* (Python raises ValueError there).
IndexOf(s, x) ==
    IF x \in Range(s) THEN CHOOSE i \in 1..Len(s) :
                               s[i] = x /\ \A j \in 1..(i - 1) : s[j] # x
                      ELSE 0

Max(S) == CHOOSE m \in S : \A x \in S : x <= m

\* Python's None, and the value of a variable not assigned yet.
None  == <<"<None>">>
Unset == "<unset>"

\* sync_directories has neither returned nor raised
NoResult == [kind |-> "none", value |-> 0, exc |-> ""]
Return(v) == [kind |-> "return", value |-> v, exc |-> ""]
Raise(e)  == [kind |-> "raise", value |-> 0, exc |-> e]

(***************************************************************************)
(* Command-line arguments                                                  *)
(***************************************************************************)
\* A word without slashes: a flag, a binary name.
Tok(s) == [stem |-> <<s>>, slashes |-> 0]

\* A plausible slip: one trailing slash removed, not all of them.
rstrip_slash_one(a) == [a EXCEPT !.slashes = IF @ > 0 THEN @ - 1 ELSE 0]

\* str.rstrip("/")
rstrip_slash(a) == [a EXCEPT !.slashes = 0]

\* s + "/"
plus_slash(a) == [a EXCEPT !.slashes = @ + 1]

\* str(Path(p) / e): pathlib drops p's trailing slashes and joins with one "/"
path_join(p, e) == [stem |-> Append(p.stem, e), slashes |-> 0]

RSYNC_BIN == Tok("rsync")

(***************************************************************************)
(* build_rsync_cmd                                                         *)
(***************************************************************************)
Modes == {"safe", "fast", "aggressive", "turbo"}

\* lines 189-192: the flags every mode starts from
base_flags ==
    <<Tok("-a"), Tok("-H"), Tok("-A"), Tok("-X"), Tok("--numeric-ids"),
      Tok("--info=progress2")>>

\* A plausible slip: safe mode built without --inplace.
mode_flags_no_inplace(m, src_is_ssd, dst_is_ssd) ==
    IF m = "safe" THEN <<Tok("--partial")>>
    ELSE IF m = "fast" THEN
        <<Tok("--partial"), Tok("--inplace")>>
        \o (IF src_is_ssd /\ dst_is_ssd
            THEN <<Tok("--whole-file"), Tok("--no-inc-recursive")>>
            ELSE <<Tok("--no-inc-recursive")>>)
    ELSE <<Tok("--partial"), Tok("--inplace"), Tok("--no-inc-recursive"),
           Tok("--whole-file")>>

\* A plausible slip: the SSD test of fast mode written with "or".
mode_flags_or(m, src_is_ssd, dst_is_ssd) ==
    IF m = "safe" THEN <<Tok("--partial"), Tok("--inplace")>>
    ELSE IF m = "fast" THEN
        <<Tok("--partial"), Tok("--inplace")>>
        \o (IF src_is_ssd \/ dst_is_ssd
            THEN <<Tok("--whole-file"), Tok("--no-inc-recursive")>>
            ELSE <<Tok("--no-inc-recursive")>>)
    ELSE <<Tok("--partial"), Tok("--inplace"), Tok("--no-inc-recursive"),
           Tok("--whole-file")>>

\* lines 197-214: the flags a recognized mode adds (m is safe, fast or
\* aggressive; the else branch of the source never reaches this point)
mode_flags(m, src_is_ssd, dst_is_ssd) ==
    IF m = "safe" THEN <<Tok("--partial"), Tok("--inplace")>>
    ELSE IF m = "fast" THEN
        <<Tok("--partial"), Tok("--inplace")>>
        \o (IF src_is_ssd /\ dst_is_ssd
            THEN <<Tok("--whole-file"), Tok("--no-inc-recursive")>>
            ELSE <<Tok("--no-inc-recursive")>>)
    ELSE <<Tok("--partial"), Tok("--inplace"), Tok("--no-inc-recursive"),
           Tok("--whole-file")>>

\* A plausible slip: the priorities of fast and aggressive exchanged.
pre_cmd_swapped(m) ==
    IF m = "aggressive" THEN
        <<Tok("ionice"), Tok("-c2"), Tok("-n0"), Tok("nice"), Tok("-n"),
          Tok("-5")>>
    ELSE IF m = "fast" THEN
        <<Tok("ionice"), Tok("-c1"), Tok("-n0"), Tok("nice"), Tok("-n"),
          Tok("-10")>>
    ELSE <<>>

\* lines 195, 210, 214: the ionice/nice wrapper of a recognized mode
pre_cmd(m) ==
    IF m = "fast" THEN
        <<Tok("ionice"), Tok("-c2"), Tok("-n0"), Tok("nice"), Tok("-n"),
          Tok("-5")>>
    ELSE IF m = "aggressive" THEN
        <<Tok("ionice"), Tok("-c1"), Tok("-n0"), Tok("nice"), Tok("-n"),
          Tok("-10")>>
    ELSE <<>>

\* A plausible slip: an unrecognized mode built as "safe".
build_rsync_cmd_else_safe(src, dst, src_is_ssd, dst_is_ssd, m) ==
    LET src1 == plus_slash(rstrip_slash(src))
        dst1 == plus_slash(rstrip_slash(dst))
        m1   == IF m \in {"safe", "fast", "aggressive"} THEN m ELSE "safe"
    IN  pre_cmd(m1) \o <<RSYNC_BIN>> \o base_flags
        \o mode_flags(m1, src_is_ssd, dst_is_ssd) \o <<src1, dst1>>

RECURSIVE build_rsync_cmd(_, _, _, _, _)
\* lines 184-220
build_rsync_cmd(src, dst, src_is_ssd, dst_is_ssd, m) ==
    LET src1 == plus_slash(rstrip_slash(src))
        dst1 == plus_slash(rstrip_slash(dst))
    IN  IF m \in {"safe", "fast", "aggressive"}
        THEN pre_cmd(m) \o <<RSYNC_BIN>> \o base_flags
             \o mode_flags(m, src_is_ssd, dst_is_ssd) \o <<src1, dst1>>
        ELSE build_rsync_cmd(src1, dst1, src_is_ssd, dst_is_ssd, "fast")

(***************************************************************************)
(* Device names: sequences of characters                                   *)
(***************************************************************************)
Letters ==
    {"a","b","c","d","e","f","g","h","i","j","k","l","m","n","o","p","q",
     "r","s","t","u","v","w","x","y","z",
     "A","B","C","D","E","F","G","H","I","J","K","L","M","N","O","P","Q",
     "R","S","T","U","V","W","X","Y","Z"}
Digits == {"0","1","2","3","4","5","6","7","8","9"}
Whitespace == {" ", "\n", "\t"}

\* s[a..b], empty when a > b
Slice(s, a, b) == IF a > b THEN <<>> ELSE SubSeq(s, a, b)

\* str.startswith
startswith(s, prefix) ==
    Len(s) >= Len(prefix) /\ SubSeq(s, 1, Len(prefix)) = prefix

\* str.strip(): leading and trailing whitespace removed
strip(s) ==
    LET keep == {i \in 1..Len(s) : s[i] \notin Whitespace}
    IN  IF keep = {} THEN <<>>
        ELSE Slice(s, CHOOSE i \in keep : \A j \in keep : i <= j, Max(keep))

\* str.rstrip("0123456789")
rstrip_digits(s) ==
    LET keep == {i \in 1..Len(s) : s[i] \notin Digits}
    IN  IF keep = {} THEN <<>> ELSE Slice(s, 1, Max(keep))

\* s.split(c)[0]: the text before the first c, all of s when c is absent
split_first(s, c) ==
    LET at == {i \in 1..Len(s) : s[i] = c}
    IN  IF at = {} THEN s
        ELSE Slice(s, 1, (CHOOSE i \in at : \A j \in at : i <= j) - 1)

\* os.path.basename: the text after the last "/"
basename(s) ==
    LET at == {i \in 1..Len(s) : s[i] = "/"}
    IN  IF at = {} THEN s ELSE Slice(s, Max(at) + 1, Len(s))

\* re.match(r"^([a-zA-Z]+)", s).group(1): the longest leading run of
\* letters; empty when s does not start with a letter (no match)
leading_letters(s) ==
    LET stop == {i \in 1..Len(s) : s[i] \notin Letters}
    IN  IF stop = {} THEN s
        ELSE Slice(s, 1, (CHOOSE i \in stop : \A j \in stop : i <= j) - 1)

\* the names and df lines used as inputs
sda       == <<"s","d","a">>
sda1      == <<"s","d","a","1">>
nvme0n1   == <<"n","v","m","e","0","n","1">>
nvme0n1p1 == <<"n","v","m","e","0","n","1","p","1">>
tmpfs     == <<"t","m","p","f","s">>
nvme      == <<"n","v","m","e">>
Dev(name) == <<"/","d","e","v","/">> \o name
DfHeader  == <<"F","i","l","e","s","y","s","t","e","m">>

\* whole disks (entries of /sys/block) and all names /sys/class/block may list
DiskPool == {sda, nvme0n1}
NamePool == {sda, sda1, nvme0n1, nvme0n1p1}

\* what `df --output=source path` can do: fail, or print its lines
DfOutcomes ==
    {[ok |-> FALSE, lines |-> <<>>],
     [ok |-> TRUE, lines |-> <<DfHeader>>]}
    \cup {[ok |-> TRUE, lines |-> <<DfHeader, l>>] :
            l \in {Dev(sda1), Dev(sda), Dev(nvme0n1p1), Dev(nvme0n1),
                   Dev(sda1) \o <<" ">>, tmpfs, <<>>}}

\* what os.listdir("/sys/class/block") can do: raise, or list names
ListingOutcomes ==
    {[ok |-> FALSE, names |-> {}]}
    \cup {[ok |-> TRUE, names |-> S] : S \in SUBSET NamePool}

\* what reading /sys/block/<disk>/queue/rotational yields: its text, or None
\* when the file cannot be opened
RotContents == {<<"1","\n">>, <<"0","\n">>, <<"2","\n">>, None}

DevEnvs ==
    [df : DfOutcomes, listing : ListingOutcomes, rot : [DiskPool -> RotContents]]

\* lines 110-120
device_for_path(df) ==
    IF df.ok /\ Len(df.lines) >= 2 THEN strip(df.lines[2]) ELSE None

\* lines 123-154
block_name_from_device(device, listing) ==
    IF device = None \/ device = <<>> THEN None
    ELSE LET base   == basename(device)
             prefix == leading_letters(base)
         IN  IF startswith(base, nvme) /\ "p" \in Range(base)
                 THEN split_first(base, "p")
             ELSE IF listing.ok /\ base \in listing.names THEN base
             ELSE IF listing.ok /\ prefix # <<>> /\ prefix \in listing.names
                 THEN prefix
             ELSE rstrip_digits(base)

\* the text of /sys/block/<block_name>/queue/rotational, None when unreadable:
\* only whole disks have the attribute
read_rotational(block_name, rot) ==
    IF block_name \in DOMAIN rot THEN rot[block_name] ELSE None

\* A plausible slip: every value but "0" taken as rotational.
is_rotational_not_zero(block_name, rot) ==
    IF block_name = None \/ block_name = <<>> THEN FALSE
    ELSE LET text == read_rotational(block_name, rot)
         IN  IF text = None THEN FALSE ELSE strip(text) # <<"0">>

\* lines 157-169
is_rotational(block_name, rot) ==
    IF block_name = None \/ block_name = <<>> THEN FALSE
    ELSE LET text == read_rotational(block_name, rot)
         IN  IF text = None THEN FALSE ELSE strip(text) = <<"1">>

\* lines 172-178
is_ssd_for_path(env) ==
    LET device == device_for_path(env.df)
    IN  IF device = None \/ device = <<>> THEN FALSE
        ELSE ~is_rotational(block_name_from_device(device, env.listing),
                            env.rot)

(***************************************************************************)
(* SpecCmd: build_rsync_cmd applied to every input                         *)
(***************************************************************************)
MaxSlashes == 2

\* "/mnt/a", "b" and the empty text (with slashes: "/", "//")
PathStems == {<<"", "mnt", "a">>, <<"b">>, <<>>}
Paths == [stem : PathStems, slashes : 0..MaxSlashes]

CmdInit ==
    /\ bc_pc = "call"
    /\ bc_in \in [src : Paths, dst : Paths, src_is_ssd : BOOLEAN,
                  dst_is_ssd : BOOLEAN, mode : Modes]
    /\ bc_out = <<>>
    \* the other parts of the program are at rest
    /\ dv_pc = "idle" /\ dv_env = Unset /\ dv_device = None
    /\ dv_block = None /\ dv_rot = <<>> /\ dv_ssd = FALSE
    /\ rs_pc = "idle" /\ child_prog = <<>> /\ child_ip = 1
    /\ child_state = "none" /\ child_rc = 0 /\ out_pipe = 0 /\ err_pipe = 0
    /\ rs_stdout = 0 /\ rs_stderr = 0 /\ rs_ret = <<>>
    /\ pc = "idle" /\ src_exists = FALSE /\ dst_exists = FALSE
    /\ mode = Unset
    /\ parallel_workers = 0 /\ pre_audit = <<>> /\ src_ssd = FALSE
    /\ dst_ssd = FALSE /\ chunks = <<>> /\ next_chunk = 1 /\ tasks = <<>>
    /\ ret = <<>> /\ first_ret = <<>> /\ post_audit = <<>>
    /\ result = NoResult /\ exit_code = <<>> /\ notes = <<>>
    /\ notify_failed = FALSE /\ prev_run = <<>> /\ notify_env = "working"
    /\ sp_pc = "idle" /\ sp_listing = <<>> /\ sp_workers = 0 /\ sp_chunks = <<>>
    /\ au_pc = "idle" /\ au_tree = Unset /\ au_env = Unset /\ au_out = <<>>

BuildCmd ==
    /\ bc_pc = "call"
    /\ bc_out' = build_rsync_cmd(bc_in.src, bc_in.dst, bc_in.src_is_ssd,
                                 bc_in.dst_is_ssd, bc_in.mode)
    /\ bc_pc' = "built"
    /\ UNCHANGED <<bc_in, devVars, streamVars, syncVars, splitVars, auditVars>>

CmdNext == BuildCmd

SpecCmd == CmdInit /\ [][CmdNext]_vars

(***************************************************************************)
(* SpecDev: is_ssd_for_path applied to every environment                   *)
(***************************************************************************)
DevInit ==
    /\ dv_pc = "call" /\ dv_env \in DevEnvs /\ dv_device = None
    /\ dv_block = None /\ dv_rot = <<>> /\ dv_ssd = FALSE
    \* the other parts of the program are at rest
    /\ bc_pc = "idle" /\ bc_in = Unset /\ bc_out = <<>>
    /\ rs_pc = "idle" /\ child_prog = <<>> /\ child_ip = 1
    /\ child_state = "none" /\ child_rc = 0 /\ out_pipe = 0 /\ err_pipe = 0
    /\ rs_stdout = 0 /\ rs_stderr = 0 /\ rs_ret = <<>>
    /\ pc = "idle" /\ src_exists = FALSE /\ dst_exists = FALSE
    /\ mode = Unset
    /\ parallel_workers = 0 /\ pre_audit = <<>> /\ src_ssd = FALSE
    /\ dst_ssd = FALSE /\ chunks = <<>> /\ next_chunk = 1 /\ tasks = <<>>
    /\ ret = <<>> /\ first_ret = <<>> /\ post_audit = <<>>
    /\ result = NoResult /\ exit_code = <<>> /\ notes = <<>>
    /\ notify_failed = FALSE /\ prev_run = <<>> /\ notify_env = "working"
    /\ sp_pc = "idle" /\ sp_listing = <<>> /\ sp_workers = 0 /\ sp_chunks = <<>>
    /\ au_pc = "idle" /\ au_tree = Unset /\ au_env = Unset /\ au_out = <<>>

\* One call of is_ssd_for_path; the device, the block name and the answer
\* of is_rotational it computed on the way are kept beside its verdict.
ClassifyPath ==
    /\ dv_pc = "call"
    /\ dv_device' = device_for_path(dv_env.df)
    /\ dv_block' = IF dv_device' = None \/ dv_device' = <<>> THEN None
                   ELSE block_name_from_device(dv_device', dv_env.listing)
    /\ dv_rot' = IF dv_device' = None \/ dv_device' = <<>> THEN <<>>
                 ELSE <<is_rotational(dv_block', dv_env.rot)>>
    /\ dv_ssd' = is_ssd_for_path(dv_env)
    /\ dv_pc' = "done"
    /\ UNCHANGED <<dv_env, cmdVars, streamVars, syncVars, splitVars, auditVars>>

\* the block names is_rotational is called with directly: whole disks,
\* partitions, None and the empty string
RotArgs == NamePool \cup {None, <<>>}

\* lines 157-169: one call of is_rotational on its own
ReadRotational ==
    /\ dv_pc = "call"
    /\ \E b \in RotArgs :
        /\ dv_block' = b
        /\ dv_rot' = <<is_rotational(b, dv_env.rot)>>
    /\ dv_pc' = "rot_done"
    /\ UNCHANGED <<dv_env, dv_device, dv_ssd, cmdVars, streamVars, syncVars,
                   splitVars, auditVars>>

DevNext == ClassifyPath \/ ReadRotational

SpecDev == DevInit /\ [][DevNext]_vars

(***************************************************************************)
(* SpecStream: run_rsync_stream and its child process                      *)
(*                                                                         *)
(* The child runs a program: a sequence of writes of one line each, to     *)
(* standard output ("out") or standard error ("err"), then exits, which    *)
(* closes both pipes.  A write blocks while its pipe holds PipeCap lines.  *)
(***************************************************************************)
PipeCap   == 2
MaxWrites == 4

\* the exit codes Popen.returncode takes: 0, an rsync error code, and -N for
\* a child killed by signal N
ExitCodes == {-9, 0, 1}

RECURSIVE SeqsUpTo(_, _)
SeqsUpTo(S, n) ==
    IF n = 0 THEN {<<>>}
    ELSE LET shorter == SeqsUpTo(S, n - 1)
         IN  shorter \cup {Append(q, x) : q \in shorter, x \in S}

StreamInit ==
    /\ rs_pc = "popen"
    /\ child_prog \in SeqsUpTo({"out", "err"}, MaxWrites)
    /\ child_ip = 1 /\ child_state = "none" /\ child_rc \in ExitCodes
    /\ out_pipe = 0 /\ err_pipe = 0 /\ rs_stdout = 0 /\ rs_stderr = 0
    /\ rs_ret = <<>>
    \* the other parts of the program are at rest
    /\ bc_pc = "idle" /\ bc_in = Unset /\ bc_out = <<>>
    /\ dv_pc = "idle" /\ dv_env = Unset /\ dv_device = None
    /\ dv_block = None /\ dv_rot = <<>> /\ dv_ssd = FALSE
    /\ pc = "idle" /\ src_exists = FALSE /\ dst_exists = FALSE
    /\ mode = Unset
    /\ parallel_workers = 0 /\ pre_audit = <<>> /\ src_ssd = FALSE
    /\ dst_ssd = FALSE /\ chunks = <<>> /\ next_chunk = 1 /\ tasks = <<>>
    /\ ret = <<>> /\ first_ret = <<>> /\ post_audit = <<>>
    /\ result = NoResult /\ exit_code = <<>> /\ notes = <<>>
    /\ notify_failed = FALSE /\ prev_run = <<>> /\ notify_env = "working"
    /\ sp_pc = "idle" /\ sp_listing = <<>> /\ sp_workers = 0 /\ sp_chunks = <<>>
    /\ au_pc = "idle" /\ au_tree = Unset /\ au_env = Unset /\ au_out = <<>>

\* line 228: the child starts
Popen ==
    /\ rs_pc = "popen"
    /\ child_state' = "running" /\ rs_pc' = "read_stdout"
    /\ UNCHANGED <<child_prog, child_ip, child_rc, out_pipe, err_pipe,
                   rs_stdout, rs_stderr, rs_ret>>
    /\ UNCHANGED <<cmdVars, devVars, syncVars, splitVars, auditVars>>

\* the child's next write, when its pipe has room
ChildWrite ==
    /\ child_state = "running" /\ child_ip <= Len(child_prog)
    /\ \/ /\ child_prog[child_ip] = "out" /\ out_pipe < PipeCap
          /\ out_pipe' = out_pipe + 1 /\ UNCHANGED err_pipe
       \/ /\ child_prog[child_ip] = "err" /\ err_pipe < PipeCap
          /\ err_pipe' = err_pipe + 1 /\ UNCHANGED out_pipe
    /\ child_ip' = child_ip + 1
    /\ UNCHANGED <<rs_pc, child_prog, child_state, child_rc, rs_stdout,
                   rs_stderr, rs_ret>>
    /\ UNCHANGED <<cmdVars, devVars, syncVars, splitVars, auditVars>>

\* the child exits after its last write; both pipes reach end-of-file once
\* drained
ChildExit ==
    /\ child_state = "running" /\ child_ip > Len(child_prog)
    /\ child_state' = "exited"
    /\ UNCHANGED <<rs_pc, child_prog, child_ip, child_rc, out_pipe, err_pipe,
                   rs_stdout, rs_stderr, rs_ret>>
    /\ UNCHANGED <<cmdVars, devVars, syncVars, splitVars, auditVars>>

\* lines 232-234: one pass of `for line in proc.stdout`
ReadStdoutLine ==
    /\ rs_pc = "read_stdout" /\ out_pipe > 0
    /\ out_pipe' = out_pipe - 1 /\ rs_stdout' = rs_stdout + 1
    /\ UNCHANGED <<rs_pc, child_prog, child_ip, child_state, child_rc,
                   err_pipe, rs_stderr, rs_ret>>
    /\ UNCHANGED <<cmdVars, devVars, syncVars, splitVars, auditVars>>

\* line 232: the loop ends at end-of-file of standard output
StdoutEOF ==
    /\ rs_pc = "read_stdout" /\ out_pipe = 0 /\ child_state = "exited"
    /\ rs_pc' = "read_stderr"
    /\ UNCHANGED <<child_prog, child_ip, child_state, child_rc, out_pipe,
                   err_pipe, rs_stdout, rs_stderr, rs_ret>>
    /\ UNCHANGED <<cmdVars, devVars, syncVars, splitVars, auditVars>>

\* line 239: proc.stderr.read() takes what the pipe holds ...
ReadStderr ==
    /\ rs_pc = "read_stderr" /\ err_pipe > 0
    /\ rs_stderr' = rs_stderr + err_pipe /\ err_pipe' = 0
    /\ UNCHANGED <<rs_pc, child_prog, child_ip, child_state, child_rc,
                   out_pipe, rs_stdout, rs_ret>>
    /\ UNCHANGED <<cmdVars, devVars, syncVars, splitVars, auditVars>>

\* ... and returns at end-of-file of standard error
StderrEOF ==
    /\ rs_pc = "read_stderr" /\ err_pipe = 0 /\ child_state = "exited"
    /\ rs_pc' = "wait"
    /\ UNCHANGED <<child_prog, child_ip, child_state, child_rc, out_pipe,
                   err_pipe, rs_stdout, rs_stderr, rs_ret>>
    /\ UNCHANGED <<cmdVars, devVars, syncVars, splitVars, auditVars>>

\* lines 240-246: proc.wait() and the return of the exit code
WaitAndReturn ==
    /\ rs_pc = "wait" /\ child_state = "exited"
    /\ rs_ret' = <<child_rc>> /\ rs_pc' = "returned"
    /\ UNCHANGED <<child_prog, child_ip, child_state, child_rc, out_pipe,
                   err_pipe, rs_stdout, rs_stderr>>
    /\ UNCHANGED <<cmdVars, devVars, syncVars, splitVars, auditVars>>

StreamNext ==
    \/ Popen \/ ChildWrite \/ ChildExit \/ ReadStdoutLine \/ StdoutEOF
    \/ ReadStderr \/ StderrEOF \/ WaitAndReturn

SpecStream == StreamInit /\ [][StreamNext]_vars

(***************************************************************************)
(* Spec: one process run.  main() calls sync_directories(), which audits,  *)
(* classifies, transfers (one rsync, or parallel_rsync_split's workers),   *)
(* retries once and verifies.                                              *)
(*                                                                         *)
(* The file system, du, find, df and rsync are outside the program: what   *)
(* they report is drawn anew at each call.                                 *)
(***************************************************************************)
MaxSize    == 1
MaxWorkers == 2
MaxEntries == 2

\* file counts are only compared for equality: two values are enough
AuditCounts == {0, 1}

\* the arguments of the run
SyncSrc == [stem |-> <<"", "mnt", "a">>, slashes |-> 0]
SyncDst == [stem |-> <<"", "mnt", "b">>, slashes |-> 1]

\* What one audit's tools report: du's total, or its failure and the sum
\* the os.walk fallback reaches; find|wc's count, or its failure and the
\* count the os.walk fallback reaches.  A tool that is not run reports 0.
Probes ==
    {p \in [du_ok : BOOLEAN, du : 0..MaxSize, walk_size : 0..MaxSize,
            find_ok : BOOLEAN, find : AuditCounts, walk_count : AuditCounts] :
        /\ (p.du_ok => p.walk_size = 0) /\ (~p.du_ok => p.du = 0)
        /\ (p.find_ok => p.walk_count = 0) /\ (~p.find_ok => p.find = 0)}

\* lines 75-104: <<size, count>>
get_size_and_count(p) ==
    <<IF p.du_ok THEN p.du ELSE p.walk_size,
      IF p.find_ok THEN p.find ELSE p.walk_count>>

\* A plausible slip: the test for an empty source inverted.
pre_audit_match_zero(s, d) == s[1] = d[1] /\ s[2] = d[2] /\ s[1] = 0

\* line 342: the pre-audit says there is nothing to do
pre_audit_match(s, d) == s[1] = d[1] /\ s[2] = d[2] /\ s[1] # 0

\* A plausible slip: the empty-source guard left out of the final test.
final_verify_ok_no_guard(s, d) == s[1] = d[1] /\ s[2] = d[2]

\* A plausible slip: the sizes left out of the final comparison.
final_verify_ok_count_only(s, d) == s[2] = d[2] /\ s[1] # 0

\* A plausible slip: the guard put on the destination's file count.
final_verify_ok_count_guard(s, d) == s[1] = d[1] /\ s[2] = d[2] /\ d[2] # 0

\* line 380: the final verification passes
final_verify_ok(s, d) == s[1] = d[1] /\ s[2] = d[2] /\ s[1] # 0

\* A plausible slip: the mismatch reported with the fatal-error code.
verify_result_fatal(ok) == IF ok THEN 0 ELSE 1

\* lines 380-389: the value returned after the final verification
verify_result(ok) == IF ok THEN 0 ELSE 2

\* A plausible slip: only positive exit codes retried.
needs_retry_positive(r) == r > 0

\* line 370
needs_retry(r) == r # 0

\* A plausible slip: any nonzero worker count taken as a request to split.
use_parallel_nonzero(s_ssd, d_ssd, workers) == s_ssd /\ d_ssd /\ workers # 0

\* lines 361: Python truth of `parallel_workers and parallel_workers > 1`
use_parallel(s_ssd, d_ssd, workers) ==
    s_ssd /\ d_ssd /\ workers # 0 /\ workers > 1

\* the environments the two classifications of a run are drawn from
SyncDevEnvs ==
    {e \in DevEnvs :
        /\ e.listing = [ok |-> TRUE, names |-> NamePool]
        /\ e.rot = (sda :> <<"1","\n">> @@ nvme0n1 :> <<"0","\n">>)
        /\ \/ ~e.df.ok
           \/ /\ Len(e.df.lines) = 2
              /\ e.df.lines[2] \in {Dev(sda1), Dev(sda), Dev(nvme0n1p1)}}

\* the names os.listdir(src) yields in a run, a prefix of these
EntryNames == <<"e1", "e2", "e3", "e4">>

\* lines 252-261: the listed names joined to the path; an entry whose last
\* component is "." or ".." is dropped
list_top_level_entries(path, listing) ==
    LET entries == [k \in 1..Len(listing) |-> path_join(path, listing[k])]
        keep(e) == e.stem[Len(e.stem)] \notin {".", ".."}
    IN  SelectSeq(entries, keep)

\* lines 278-279: the loop from the entry at position k (index k - 1) on;
\* acc holds the chunks built so far
RECURSIVE split_loop(_, _, _)
split_loop(entries, acc, k) ==
    IF k > Len(entries) THEN acc
    ELSE split_loop(entries,
                    [acc EXCEPT ![((k - 1) % Len(acc)) + 1] =
                                    Append(@, entries[k])],
                    k + 1)

\* A plausible slip: chunks = [[]] * workers, one list shared by all workers.
split_chunks_shared(entries, workers) == [i \in 1..workers |-> entries]

\* lines 277-279: chunk i (1-based) takes the entries at 0-based indices
\* idx with idx % workers = i - 1
split_chunks(entries, workers) ==
    split_loop(entries, [i \in 1..workers |-> <<>>], 1)

\* lines 291-307: the command of one worker
worker_cmd(src, dst, chunk, s_ssd, d_ssd, m) ==
    LET base_cmd == build_rsync_cmd(src, dst, s_ssd, d_ssd, m)
        at    == IF RSYNC_BIN \in Range(base_cmd)
                 THEN IndexOf(base_cmd, RSYNC_BIN) ELSE 1
        pre   == Slice(base_cmd, 1, at - 1)
        post  == Slice(base_cmd, at + 1, Len(base_cmd))
        flags == IF Len(post) >= 2 THEN Slice(post, 1, Len(post) - 2)
                 ELSE post
    IN  pre \o <<RSYNC_BIN>> \o flags \o chunk
        \o <<plus_slash(rstrip_slash(dst))>>

\* a transfer task: one call of run_rsync_stream
Task(kind, launch, cmd) ==
    [kind |-> kind, launch |-> launch, cmd |-> cmd, state |-> "running",
     rc |-> 0]

\* the summary of a call of send_notification, kept in notes
Note(summary) == summary

\* what subprocess.run([NOTIFY_BIN, ...], check=False) does at one call:
\* notify-send runs (its exit status is not looked at), or the call raises
\* (notify-send is not installed, no session bus to start it on)
ChanOutcomes == {"shown", "unavailable"}

\* the outcomes a call can have in the environment of the run: a desktop
\* where notify-send works, or one where any call may fail
ChanOutcomesNow ==
    IF notify_env = "unreliable" THEN ChanOutcomes ELSE {"shown"}

\* A plausible slip: the call made without the try/except.
send_notification_unguarded(outcome) ==
    IF outcome = "unavailable" THEN "raised" ELSE "returned"

\* lines 65-69: the exception of a failing call is caught and logged
send_notification(outcome) ==
    IF outcome = "unavailable" THEN "returned" ELSE "returned"

\* A plausible slip: the executor left at the first future that completes.
AnyDone == \E i \in 1..Len(tasks) : tasks[i].state # "running"

\* lines 283-312, 368, 374: every launched call of run_rsync_stream has ended
AllDone == \A i \in 1..Len(tasks) : tasks[i].state # "running"
AnyFailed == \E i \in 1..Len(tasks) : tasks[i].state = "failed"

SyncInit ==
    /\ pc = "main"
    /\ src_exists \in BOOLEAN /\ dst_exists \in BOOLEAN
    /\ mode \in Modes /\ parallel_workers \in 0..MaxWorkers
    /\ pre_audit = <<>> /\ src_ssd = FALSE /\ dst_ssd = FALSE
    /\ chunks = <<>> /\ next_chunk = 1 /\ tasks = <<>>
    /\ ret = <<>> /\ first_ret = <<>> /\ post_audit = <<>>
    /\ result = NoResult /\ exit_code = <<>> /\ notes = <<>>
    /\ notify_failed = FALSE /\ prev_run = <<>> /\ notify_env = "working"
    \* the other parts of the program are at rest
    /\ bc_pc = "idle" /\ bc_in = Unset /\ bc_out = <<>>
    /\ dv_pc = "idle" /\ dv_env = Unset /\ dv_device = None
    /\ dv_block = None /\ dv_rot = <<>> /\ dv_ssd = FALSE
    /\ rs_pc = "idle" /\ child_prog = <<>> /\ child_ip = 1
    /\ child_state = "none" /\ child_rc = 0 /\ out_pipe = 0 /\ err_pipe = 0
    /\ rs_stdout = 0 /\ rs_stderr = 0 /\ rs_ret = <<>>
    /\ sp_pc = "idle" /\ sp_listing = <<>> /\ sp_workers = 0 /\ sp_chunks = <<>>
    /\ au_pc = "idle" /\ au_tree = Unset /\ au_env = Unset /\ au_out = <<>>

\* lines 416-421: main parses its arguments, sets up logging and calls
\* sync_directories.  parse_args (line 407) accepts only the three modes:
\* argparse ends the process with status 2 on any other.  setup_logging
\* (line 418, outside the try) opens the log file: when that fails the
\* exception leaves main and the interpreter ends with status 1.
MainStart ==
    /\ pc = "main"
    /\ IF mode \notin {"safe", "fast", "aggressive"}
       THEN pc' = "exited" /\ exit_code' = <<2>>
       ELSE \/ pc' = "sync_entry" /\ UNCHANGED exit_code
            \/ pc' = "escaped" /\ exit_code' = <<1>>
    /\ UNCHANGED <<src_exists, dst_exists, mode, parallel_workers, pre_audit,
                   src_ssd, dst_ssd, chunks, next_chunk, tasks, ret,
                   first_ret, post_audit, result, notes>>
    /\ UNCHANGED <<cmdVars, devVars, streamVars, splitVars, auditVars, notify_failed,
                   prev_run, notify_env>>

\* A plausible slip: the existence check left out.
source_missing_never(exists) == FALSE

\* line 327: not os.path.exists(src)
source_missing(exists) == ~exists

\* lines 322-331: the start notification, the source check, makedirs
SyncEntry ==
    /\ pc = "sync_entry"
    /\ \E o1 \in ChanOutcomesNow :
        IF send_notification(o1) = "raised"
        THEN /\ notes' = Append(notes, Note("Drive Sync"))
             /\ notify_failed' = TRUE
             /\ result' = Raise("NotifyError") /\ pc' = "raised"
             /\ UNCHANGED dst_exists
        ELSE IF source_missing(src_exists)
        THEN \E o2 \in ChanOutcomesNow :
             /\ notes' = notes \o <<Note("Drive Sync"),
                                     Note("Drive Sync Error")>>
             /\ notify_failed' = (notify_failed \/ "unavailable" \in {o1, o2})
             /\ result' = IF send_notification(o2) = "raised"
                           THEN Raise("NotifyError")
                           ELSE Raise("FileNotFoundError")
             /\ pc' = "raised"
             /\ UNCHANGED dst_exists
        ELSE /\ notes' = Append(notes, Note("Drive Sync"))
             /\ notify_failed' = (notify_failed \/ o1 = "unavailable")
             \* os.makedirs(dst, exist_ok=True) creates dst, or raises; it
             \* does not raise for the directory a previous run left
             /\ \/ /\ dst_exists' = TRUE /\ pc' = "pre_src"
                   /\ UNCHANGED result
                \/ /\ prev_run = <<>>
                   /\ result' = Raise("OSError") /\ pc' = "raised"
                   /\ UNCHANGED dst_exists
    /\ UNCHANGED <<src_exists, mode, parallel_workers, pre_audit, src_ssd,
                   dst_ssd, chunks, next_chunk, tasks, ret, first_ret,
                   post_audit, exit_code>>
    /\ UNCHANGED <<cmdVars, devVars, streamVars, splitVars, auditVars, prev_run, notify_env>>

\* lines 334-336: the audit of the source; in a second run the tools report
\* on the unchanged tree what they reported last
PreAuditSrc ==
    /\ pc = "pre_src"
    /\ \E p \in Probes :
        /\ prev_run # <<>> => get_size_and_count(p) = prev_run[1].audits[1]
        /\ pre_audit' = <<get_size_and_count(p)>>
    /\ pc' = "pre_dst"
    /\ UNCHANGED <<src_exists, dst_exists, mode, parallel_workers, src_ssd,
                   dst_ssd, chunks, next_chunk, tasks, ret, first_ret,
                   post_audit, result, exit_code, notes>>
    /\ UNCHANGED <<cmdVars, devVars, streamVars, splitVars, auditVars, notify_failed,
                   prev_run, notify_env>>

\* lines 338-347: the audit of the destination and the short circuit
PreAuditDst ==
    /\ pc = "pre_dst"
    /\ \E p \in Probes :
        LET d == get_size_and_count(p)
        IN  /\ prev_run # <<>> => d = prev_run[1].audits[2]
            /\ pre_audit' = Append(pre_audit, d)
            /\ IF pre_audit_match(pre_audit[1], d)
               THEN \E o \in ChanOutcomesNow :
                    /\ notes' = Append(notes, Note("Already synced"))
                    /\ notify_failed' = (notify_failed \/ o = "unavailable")
                    /\ IF send_notification(o) = "raised"
                       THEN result' = Raise("NotifyError") /\ pc' = "raised"
                       ELSE result' = Return(0) /\ pc' = "returned"
               ELSE /\ pc' = "classify"
                    /\ UNCHANGED <<notes, notify_failed, result>>
    /\ UNCHANGED <<src_exists, dst_exists, mode, parallel_workers, src_ssd,
                   dst_ssd, chunks, next_chunk, tasks, ret, first_ret,
                   post_audit, exit_code>>
    /\ UNCHANGED <<cmdVars, devVars, streamVars, splitVars, auditVars, prev_run, notify_env>>

\* lines 350-358: both sides classified (is_ssd_for_path raises nothing, so
\* the except branch is never taken)
Classify ==
    /\ pc = "classify"
    /\ \E es \in SyncDevEnvs, ed \in SyncDevEnvs :
        /\ src_ssd' = is_ssd_for_path(es)
        /\ dst_ssd' = is_ssd_for_path(ed)
    /\ pc' = "strategy"
    /\ UNCHANGED <<src_exists, dst_exists, mode, parallel_workers, pre_audit,
                   chunks, next_chunk, tasks, ret, first_ret, post_audit,
                   result, exit_code, notes>>
    /\ UNCHANGED <<cmdVars, devVars, streamVars, splitVars, auditVars, notify_failed,
                   prev_run, notify_env>>

\* lines 361-364 and 269-279: the parallel strategy lists the source and
\* splits its entries; with no entry it returns 0 at once; os.listdir raises
\* when the source is not a readable directory
StartParallel ==
    /\ pc = "strategy"
    /\ use_parallel(src_ssd, dst_ssd, parallel_workers)
    /\ \/ \E n \in 0..MaxEntries :
            IF n = 0
            THEN /\ ret' = <<0>> /\ first_ret' = <<0>> /\ pc' = "check_ret"
                 /\ UNCHANGED <<chunks, next_chunk, result>>
            ELSE /\ chunks' = split_chunks(
                                  list_top_level_entries(
                                      SyncSrc, SubSeq(EntryNames, 1, n)),
                                  parallel_workers)
                 /\ next_chunk' = 1
                 /\ pc' = "par_submit"
                 /\ UNCHANGED <<ret, first_ret, result>>
       \/ /\ result' = Raise("OSError") /\ pc' = "raised"
          /\ UNCHANGED <<chunks, next_chunk, ret, first_ret>>
    /\ UNCHANGED <<src_exists, dst_exists, mode, parallel_workers, pre_audit,
                   src_ssd, dst_ssd, tasks, post_audit, exit_code, notes>>
    /\ UNCHANGED <<cmdVars, devVars, streamVars, splitVars, auditVars, notify_failed,
                   prev_run, notify_env>>

\* lines 284-309: one pass of the submission loop; an empty chunk is skipped
ParSubmit ==
    /\ pc = "par_submit"
    /\ next_chunk <= Len(chunks)
    /\ tasks' = IF chunks[next_chunk] = <<>> THEN tasks
                ELSE Append(tasks,
                            Task("worker", "first",
                                 worker_cmd(SyncSrc, SyncDst,
                                            chunks[next_chunk], src_ssd,
                                            dst_ssd, mode)))
    /\ next_chunk' = next_chunk + 1
    /\ pc' = IF next_chunk = Len(chunks) THEN "par_collect" ELSE pc
    /\ UNCHANGED <<src_exists, dst_exists, mode, parallel_workers, pre_audit,
                   src_ssd, dst_ssd, chunks, ret, first_ret, post_audit,
                   result, exit_code, notes>>
    /\ UNCHANGED <<cmdVars, devVars, streamVars, splitVars, auditVars, notify_failed,
                   prev_run, notify_env>>

\* lines 226-246: a running task ends: run_rsync_stream returns the child's
\* exit code, or raises when the command cannot be started
TaskFinish ==
    /\ \E i \in 1..Len(tasks) :
        /\ tasks[i].state = "running"
        /\ \/ \E rc \in ExitCodes :
                tasks' = [tasks EXCEPT ![i].state = "exited", ![i].rc = rc]
           \/ tasks' = [tasks EXCEPT ![i].state = "failed"]
    /\ UNCHANGED <<pc, src_exists, dst_exists, mode, parallel_workers,
                   pre_audit, src_ssd, dst_ssd, chunks, next_chunk, ret,
                   first_ret, post_audit, result, exit_code, notes>>
    /\ UNCHANGED <<cmdVars, devVars, streamVars, splitVars, auditVars, notify_failed,
                   prev_run, notify_env>>

\* lines 311-315: every future is collected; the executor is left once all
\* workers are done; the result is the maximum, or a worker's exception
ParCollect ==
    /\ pc = "par_collect"
    /\ AllDone
    /\ IF AnyFailed
       THEN /\ result' = Raise("OSError") /\ pc' = "raised"
            /\ UNCHANGED <<ret, first_ret>>
       ELSE /\ ret' = <<Max({tasks[i].rc : i \in 1..Len(tasks)})>>
            /\ first_ret' = ret'
            /\ pc' = "check_ret"
            /\ UNCHANGED result
    /\ UNCHANGED <<src_exists, dst_exists, mode, parallel_workers, pre_audit,
                   src_ssd, dst_ssd, chunks, next_chunk, tasks, post_audit,
                   exit_code, notes>>
    /\ UNCHANGED <<cmdVars, devVars, streamVars, splitVars, auditVars, notify_failed,
                   prev_run, notify_env>>

\* lines 366-368: the single rsync is started
StartSingle ==
    /\ pc = "strategy"
    /\ ~use_parallel(src_ssd, dst_ssd, parallel_workers)
    /\ tasks' = Append(tasks,
                       Task("single", "first",
                            build_rsync_cmd(SyncSrc, SyncDst, src_ssd,
                                            dst_ssd, mode)))
    /\ pc' = "single_wait"
    /\ UNCHANGED <<src_exists, dst_exists, mode, parallel_workers, pre_audit,
                   src_ssd, dst_ssd, chunks, next_chunk, ret, first_ret,
                   post_audit, result, exit_code, notes>>
    /\ UNCHANGED <<cmdVars, devVars, streamVars, splitVars, auditVars, notify_failed,
                   prev_run, notify_env>>

\* line 368: the single rsync has ended
SingleReturn ==
    /\ pc = "single_wait"
    /\ AllDone
    /\ IF AnyFailed
       THEN /\ result' = Raise("OSError") /\ pc' = "raised"
            /\ UNCHANGED <<ret, first_ret>>
       ELSE /\ ret' = <<tasks[Len(tasks)].rc>>
            /\ first_ret' = ret'
            /\ pc' = "check_ret"
            /\ UNCHANGED result
    /\ UNCHANGED <<src_exists, dst_exists, mode, parallel_workers, pre_audit,
                   src_ssd, dst_ssd, chunks, next_chunk, tasks, post_audit,
                   exit_code, notes>>
    /\ UNCHANGED <<cmdVars, devVars, streamVars, splitVars, auditVars, notify_failed,
                   prev_run, notify_env>>

\* lines 370-374: a second pass, single, when the first step failed
CheckRet ==
    /\ pc = "check_ret"
    /\ IF needs_retry(ret[1])
       THEN /\ tasks' = Append(tasks,
                               Task("single", "retry",
                                    build_rsync_cmd(SyncSrc, SyncDst, src_ssd,
                                                    dst_ssd, mode)))
            /\ pc' = "retry_wait"
       ELSE /\ pc' = "post_src"
            /\ UNCHANGED tasks
    /\ UNCHANGED <<src_exists, dst_exists, mode, parallel_workers, pre_audit,
                   src_ssd, dst_ssd, chunks, next_chunk, ret, first_ret,
                   post_audit, result, exit_code, notes>>
    /\ UNCHANGED <<cmdVars, devVars, streamVars, splitVars, auditVars, notify_failed,
                   prev_run, notify_env>>

\* line 374: the second pass has ended
RetryReturn ==
    /\ pc = "retry_wait"
    /\ AllDone
    /\ IF AnyFailed
       THEN /\ result' = Raise("OSError") /\ pc' = "raised"
            /\ UNCHANGED ret
       ELSE /\ ret' = <<tasks[Len(tasks)].rc>>
            /\ pc' = "post_src"
            /\ UNCHANGED result
    /\ UNCHANGED <<src_exists, dst_exists, mode, parallel_workers, pre_audit,
                   src_ssd, dst_ssd, chunks, next_chunk, tasks, first_ret,
                   post_audit, exit_code, notes>>
    /\ UNCHANGED <<cmdVars, devVars, streamVars, splitVars, auditVars, notify_failed,
                   prev_run, notify_env>>

\* line 377: the final audit of the source
PostAuditSrc ==
    /\ pc = "post_src"
    /\ \E p \in Probes : post_audit' = <<get_size_and_count(p)>>
    /\ pc' = "post_dst"
    /\ UNCHANGED <<src_exists, dst_exists, mode, parallel_workers, pre_audit,
                   src_ssd, dst_ssd, chunks, next_chunk, tasks, ret,
                   first_ret, result, exit_code, notes>>
    /\ UNCHANGED <<cmdVars, devVars, streamVars, splitVars, auditVars, notify_failed,
                   prev_run, notify_env>>

\* lines 378-389: the final audit of the destination and the verdict
PostAuditDst ==
    /\ pc = "post_dst"
    /\ \E p \in Probes, o \in ChanOutcomesNow :
        LET d  == get_size_and_count(p)
            ok == final_verify_ok(post_audit[1], d)
        IN  /\ post_audit' = Append(post_audit, d)
            /\ notes' = Append(notes,
                               Note(IF ok THEN "Drive Sync: Completed"
                                          ELSE "Drive Sync: ERROR"))
            /\ notify_failed' = (notify_failed \/ o = "unavailable")
            /\ IF send_notification(o) = "raised"
               THEN result' = Raise("NotifyError") /\ pc' = "raised"
               ELSE result' = Return(verify_result(ok)) /\ pc' = "returned"
    /\ UNCHANGED <<src_exists, dst_exists, mode, parallel_workers, pre_audit,
                   src_ssd, dst_ssd, chunks, next_chunk, tasks, ret,
                   first_ret, exit_code>>
    /\ UNCHANGED <<cmdVars, devVars, streamVars, splitVars, auditVars, prev_run, notify_env>>

\* lines 423-428: main exits with the value returned, or with 1 after an
\* exception, which it notifies
MainExit ==
    /\ pc \in {"returned", "raised"}
    /\ IF result.kind = "return"
       THEN /\ exit_code' = <<result.value>> /\ pc' = "exited"
            /\ UNCHANGED <<notes, notify_failed>>
       ELSE \E o \in ChanOutcomesNow :
            /\ exit_code' = <<1>>
            /\ notes' = Append(notes, Note("Drive Sync: Fatal error"))
            /\ notify_failed' = (notify_failed \/ o = "unavailable")
            /\ pc' = IF send_notification(o) = "raised" THEN "escaped"
                     ELSE "exited"
    /\ UNCHANGED <<src_exists, dst_exists, mode, parallel_workers, pre_audit,
                   src_ssd, dst_ssd, chunks, next_chunk, tasks, ret,
                   first_ret, post_audit, result>>
    /\ UNCHANGED <<cmdVars, devVars, streamVars, splitVars, auditVars, prev_run, notify_env>>

\* The program is run a second time with the same arguments, nothing having
\* touched either tree since the last audits of the first run, which
\* returned 0 (a run after a failed one is a first run again: its audits
\* are not tied to earlier ones).
RunAgain ==
    /\ pc = "exited" /\ prev_run = <<>> /\ result = Return(0)
    /\ prev_run' = <<[audits   |-> IF Len(post_audit) = 2 THEN post_audit
                                   ELSE pre_audit,
                      verified |-> Len(post_audit) = 2,
                      value    |-> result.value]>>
    /\ pc' = "main"
    /\ pre_audit' = <<>> /\ src_ssd' = FALSE /\ dst_ssd' = FALSE
    /\ chunks' = <<>> /\ next_chunk' = 1 /\ tasks' = <<>>
    /\ ret' = <<>> /\ first_ret' = <<>> /\ post_audit' = <<>>
    /\ result' = NoResult /\ exit_code' = <<>> /\ notes' = <<>>
    /\ notify_failed' = FALSE
    /\ UNCHANGED <<src_exists, dst_exists, mode, parallel_workers,
                   notify_env>>
    /\ UNCHANGED <<cmdVars, devVars, streamVars, splitVars, auditVars>>

Next ==
    \/ MainStart \/ SyncEntry \/ PreAuditSrc \/ PreAuditDst \/ Classify
    \/ StartParallel \/ ParSubmit \/ TaskFinish \/ ParCollect
    \/ StartSingle \/ SingleReturn \/ CheckRet \/ RetryReturn
    \/ PostAuditSrc \/ PostAuditDst \/ MainExit \/ RunAgain

Spec == SyncInit /\ [][Next]_vars

(***************************************************************************)
(* SpecNotify: the same process run on a desktop where any call of         *)
(* notify-send may fail (Spec runs with a working one), in fast mode       *)
(***************************************************************************)
NotifyInit ==
    /\ pc = "main"
    /\ src_exists \in BOOLEAN /\ dst_exists \in BOOLEAN
    /\ mode = "fast" /\ parallel_workers \in {1, MaxWorkers}
    /\ pre_audit = <<>> /\ src_ssd = FALSE /\ dst_ssd = FALSE
    /\ chunks = <<>> /\ next_chunk = 1 /\ tasks = <<>>
    /\ ret = <<>> /\ first_ret = <<>> /\ post_audit = <<>>
    /\ result = NoResult /\ exit_code = <<>> /\ notes = <<>>
    /\ notify_failed = FALSE /\ prev_run = <<>> /\ notify_env = "unreliable"
    \* the other parts of the program are at rest
    /\ bc_pc = "idle" /\ bc_in = Unset /\ bc_out = <<>>
    /\ dv_pc = "idle" /\ dv_env = Unset /\ dv_device = None
    /\ dv_block = None /\ dv_rot = <<>> /\ dv_ssd = FALSE
    /\ rs_pc = "idle" /\ child_prog = <<>> /\ child_ip = 1
    /\ child_state = "none" /\ child_rc = 0 /\ out_pipe = 0 /\ err_pipe = 0
    /\ rs_stdout = 0 /\ rs_stderr = 0 /\ rs_ret = <<>>
    /\ sp_pc = "idle" /\ sp_listing = <<>> /\ sp_workers = 0 /\ sp_chunks = <<>>
    /\ au_pc = "idle" /\ au_tree = Unset /\ au_env = Unset /\ au_out = <<>>

SpecNotify == NotifyInit /\ [][Next]_vars

(***************************************************************************)
(* SpecSplit: the split of parallel_rsync_split applied to every listing   *)
(* of distinct names and every worker count                                *)
(***************************************************************************)
MaxChildren     == 4
MaxSplitWorkers == 3

\* os.listdir yields distinct names, in any order
SplitNames == {"a", "b", "c", "d", "e"}
Listings ==
    {q \in SeqsUpTo(SplitNames, MaxChildren) :
        \A i, j \in 1..Len(q) : i # j => q[i] # q[j]}

SplitInit ==
    /\ sp_pc = "call" /\ sp_listing \in Listings
    /\ sp_workers \in 1..MaxSplitWorkers /\ sp_chunks = <<>>
    /\ au_pc = "idle" /\ au_tree = Unset /\ au_env = Unset /\ au_out = <<>>
    \* the other parts of the program are at rest
    /\ bc_pc = "idle" /\ bc_in = Unset /\ bc_out = <<>>
    /\ dv_pc = "idle" /\ dv_env = Unset /\ dv_device = None
    /\ dv_block = None /\ dv_rot = <<>> /\ dv_ssd = FALSE
    /\ rs_pc = "idle" /\ child_prog = <<>> /\ child_ip = 1
    /\ child_state = "none" /\ child_rc = 0 /\ out_pipe = 0 /\ err_pipe = 0
    /\ rs_stdout = 0 /\ rs_stderr = 0 /\ rs_ret = <<>>
    /\ pc = "idle" /\ src_exists = FALSE /\ dst_exists = FALSE
    /\ mode = Unset
    /\ parallel_workers = 0 /\ pre_audit = <<>> /\ src_ssd = FALSE
    /\ dst_ssd = FALSE /\ chunks = <<>> /\ next_chunk = 1 /\ tasks = <<>>
    /\ ret = <<>> /\ first_ret = <<>> /\ post_audit = <<>>
    /\ result = NoResult /\ exit_code = <<>> /\ notes = <<>>
    /\ notify_failed = FALSE /\ prev_run = <<>> /\ notify_env = "working"

\* lines 270-279: the entries are listed; with none, the function returns at
\* once, else the chunks are built
SplitEntries ==
    /\ sp_pc = "call"
    /\ LET entries == list_top_level_entries(SyncSrc, sp_listing)
       IN  IF entries = <<>>
           THEN sp_chunks' = <<>> /\ sp_pc' = "returned"
           ELSE /\ sp_chunks' = split_chunks(entries, sp_workers)
                /\ sp_pc' = "split"
    /\ UNCHANGED <<sp_listing, sp_workers>>
    /\ UNCHANGED <<cmdVars, devVars, streamVars, syncVars, auditVars>>

SplitNext == SplitEntries

SpecSplit == SplitInit /\ [][SplitNext]_vars

(***************************************************************************)
(* SpecAudit: get_size_and_count applied to a tree                         *)
(*                                                                         *)
(* A tree is what lies under the audited path, by kind of entry: regular   *)
(* files, subdirectories, symbolic links to files, to directories and to   *)
(* nothing.  Every regular file is one byte long; du counts one byte for   *)
(* each directory and each link as well.                                   *)
(***************************************************************************)
MaxFiles == 1

Trees ==
    {t \in [exists : BOOLEAN, readable : BOOLEAN, files : 0..MaxFiles,
            file_links : 0..MaxFiles, subdirs : 0..1, dir_links : 0..1,
            broken_links : 0..1] :
        ~t.exists =>
            /\ ~t.readable /\ t.files = 0 /\ t.file_links = 0
            /\ t.subdirs = 0 /\ t.dir_links = 0 /\ t.broken_links = 0}

\* what lies outside the tree: whether du can be run, whether bash can run
\* the find command (not when bash is missing or the quoted path breaks the
\* command), and how many regular files os.path.getsize fails on
AuditEnvs == [du_runs : BOOLEAN, find_runs : BOOLEAN, stat_fails : 0..1]

\* line 83: du -sb exits nonzero on an absent or unreadable path
du_ok(t, e) == e.du_runs /\ t.exists /\ t.readable

\* line 84: the total of du -sb: files, directories (the path itself
\* included) and links, none followed
du_total(t) ==
    t.files + (1 + t.subdirs) + t.file_links + t.dir_links + t.broken_links

\* lines 96-97: the exit status of `find ... | wc -l` is that of wc, so the
\* query fails only when the command cannot be run
find_ok(t, e) == e.find_runs

\* line 96: find -type f counts regular files; on an absent or unreadable
\* path it prints none and wc counts 0
find_count(t) == IF t.exists /\ t.readable THEN t.files ELSE 0

\* os.walk(path): the number of names in its `files` lists: every entry
\* that is not a directory, links to files and to nothing included; a
\* path that cannot be listed yields nothing
walk_files(t) ==
    IF t.exists /\ t.readable
    THEN t.files + t.file_links + t.broken_links ELSE 0

\* A plausible slip: os.path.getsize called without the try/except.
getsize_unguarded(fails) == IF fails > 0 THEN "raised" ELSE "summed"

\* lines 90-93: a file whose size cannot be read is passed over
getsize_guarded(fails) == IF fails > 0 THEN "summed" ELSE "summed"

\* lines 87-93: the sum of os.path.getsize over the walked names: a link to
\* a file gives the size of its target, a link to nothing raises and is
\* passed over, as is a file whose size cannot be read
walk_size(t, e) ==
    IF t.exists /\ t.readable
    THEN (t.files - e.stat_fails) + t.file_links ELSE 0

\* lines 101-102: count += len(files)
walk_count(t) == walk_files(t)

\* what the tools report on a tree; a tool that is not run reports 0
probe_of(t, e) ==
    [du_ok      |-> du_ok(t, e),
     du         |-> IF du_ok(t, e) THEN du_total(t) ELSE 0,
     walk_size  |-> IF du_ok(t, e) THEN 0 ELSE walk_size(t, e),
     find_ok    |-> find_ok(t, e),
     find       |-> IF find_ok(t, e) THEN find_count(t) ELSE 0,
     walk_count |-> IF find_ok(t, e) THEN 0 ELSE walk_count(t)]

AuditInit ==
    /\ au_pc = "call" /\ au_tree \in Trees
    /\ au_env \in {e \in AuditEnvs : e.stat_fails <= au_tree.files}
    /\ au_out = <<>>
    \* the other parts of the program are at rest
    /\ bc_pc = "idle" /\ bc_in = Unset /\ bc_out = <<>>
    /\ dv_pc = "idle" /\ dv_env = Unset /\ dv_device = None
    /\ dv_block = None /\ dv_rot = <<>> /\ dv_ssd = FALSE
    /\ rs_pc = "idle" /\ child_prog = <<>> /\ child_ip = 1
    /\ child_state = "none" /\ child_rc = 0 /\ out_pipe = 0 /\ err_pipe = 0
    /\ rs_stdout = 0 /\ rs_stderr = 0 /\ rs_ret = <<>>
    /\ pc = "idle" /\ src_exists = FALSE /\ dst_exists = FALSE
    /\ mode = Unset
    /\ parallel_workers = 0 /\ pre_audit = <<>> /\ src_ssd = FALSE
    /\ dst_ssd = FALSE /\ chunks = <<>> /\ next_chunk = 1 /\ tasks = <<>>
    /\ ret = <<>> /\ first_ret = <<>> /\ post_audit = <<>>
    /\ result = NoResult /\ exit_code = <<>> /\ notes = <<>>
    /\ notify_failed = FALSE /\ prev_run = <<>> /\ notify_env = "working"
    /\ sp_pc = "idle" /\ sp_listing = <<>> /\ sp_workers = 0 /\ sp_chunks = <<>>

\* lines 75-104: one call of get_size_and_count
AuditPath ==
    /\ au_pc = "call"
    /\ au_out' =
          IF ~du_ok(au_tree, au_env)
               /\ getsize_guarded(au_env.stat_fails) = "raised"
          THEN [raised |-> TRUE, value |-> <<>>]
          ELSE [raised |-> FALSE,
                value  |-> get_size_and_count(probe_of(au_tree, au_env))]
    /\ au_pc' = "done"
    /\ UNCHANGED <<au_tree, au_env>>
    /\ UNCHANGED <<cmdVars, devVars, streamVars, syncVars, splitVars>>

AuditNext == AuditPath

SpecAudit == AuditInit /\ [][AuditNext]_vars

(***************************************************************************)
(* Properties                                                              *)
(***************************************************************************)
Retries == SelectSeq(tasks, LAMBDA t : t.launch = "retry")
Workers == SelectSeq(tasks, LAMBDA t : t.kind = "worker")
HasFlag(cmd, f) == Tok(f) \in Range(cmd)

\* the two audits of a pair are equal and the source is not empty
EqualNonzero(a) == Len(a) = 2 /\ a[1] = a[2] /\ a[1][1] # 0

\* the first transfer step and the retry both ended with a nonzero exit code
BothFailed ==
    /\ first_ret # <<>> /\ first_ret[1] # 0
    /\ Len(tasks) > 0
    /\ tasks[Len(tasks)].launch = "retry"
    /\ tasks[Len(tasks)].state = "exited"
    /\ tasks[Len(tasks)].rc # 0

\* C1 (Spec): when the pre-audit of source and destination reports equal
\* size, equal count and a nonzero source size, sync_directories returns 0
\* and no transfer task (single, worker or retry) is ever launched.
C1_ShortCircuit ==
    EqualNonzero(pre_audit) =>
        /\ pc \in {"returned", "exited"}
        /\ result = Return(0)
        /\ tasks = <<>> /\ first_ret = <<>> /\ post_audit = <<>>

\* C1 witness: a run that short-circuited.
C1_Witness ==
    pc = "returned" /\ EqualNonzero(pre_audit) /\ result = Return(0)

\* C2 (Spec): a nonzero exit of the first transfer step (single or parallel)
\* causes exactly one more attempt, a single invocation, launched last and
\* ended before the final audit; a zero exit causes none; there is never a
\* third attempt, whatever the retry's exit code.
C2_BoundedRetry ==
    /\ Len(Retries) <= 1
    /\ \A i \in 1..Len(tasks) :
          tasks[i].launch = "retry" =>
              /\ tasks[i].kind = "single" /\ i = Len(tasks)
              /\ first_ret # <<>> /\ first_ret[1] # 0
    /\ (first_ret # <<>> /\ pc # "check_ret") =>
          (Len(Retries) = 1 <=> first_ret[1] # 0)
    /\ post_audit # <<>> => AllDone

\* C2 witness: a parallel first step that failed, then a retry that failed
\* too, and the run went on to its verdict with no third attempt.
C2_Witness ==
    /\ pc = "returned" /\ Len(post_audit) = 2
    /\ Len(Workers) = 2 /\ first_ret # <<>> /\ first_ret[1] # 0
    /\ Len(Retries) = 1 /\ tasks[Len(tasks)].rc # 0
    /\ Len(tasks) = 3

\* C3 (Spec): a run that neither short-circuits nor raises returns 0 exactly
\* when the final audits have equal size, equal count and a nonzero source
\* size, and 2 otherwise; the only other return is the short circuit's 0.
C3_SuccessCriterion ==
    result.kind = "return" =>
        /\ result.value \in {0, 2}
        /\ IF Len(post_audit) = 2
           THEN /\ ~EqualNonzero(pre_audit)
                /\ result.value = (IF EqualNonzero(post_audit) THEN 0 ELSE 2)
           ELSE /\ post_audit = <<>> /\ EqualNonzero(pre_audit)
                /\ result.value = 0

\* C3 witness: a run that transferred with exit code 0 and still returned 2,
\* the final audits being equal with an empty source.
C3_Witness ==
    /\ pc = "returned" /\ first_ret = <<0>> /\ tasks # <<>>
    /\ Len(post_audit) = 2 /\ post_audit[1] = post_audit[2]
    /\ post_audit[1][1] = 0 /\ result = Return(2)

\* C4 as stated (Spec): whenever the first transfer step and the retry both
\* return a nonzero exit code, sync_directories returns 2.
C4_DoubleFailureReturns2 ==
    (BothFailed /\ result.kind = "return") => result.value = 2

\* C4 amended (Spec): whenever the first transfer step and the retry both
\* return a nonzero exit code, no further transfer is launched and
\* sync_directories returns the verdict of the final verification alone: 2
\* when the final audits differ or the source is empty, 0 when they are
\* equal with a nonzero source size.
C4_DoubleFailure ==
    BothFailed =>
        /\ Len(Retries) = 1
        /\ ret # <<>> /\ (pc # "retry_wait" => ret[1] = tasks[Len(tasks)].rc)
        /\ result.kind # "raise"
        /\ result.kind = "return" =>
              /\ Len(post_audit) = 2
              /\ result.value = (IF EqualNonzero(post_audit) THEN 0 ELSE 2)

\* C4 witness: both attempts failed and the final audits differ: 2.
C4_Witness ==
    /\ BothFailed /\ pc = "returned" /\ Len(post_audit) = 2
    /\ post_audit[1] # post_audit[2] /\ result = Return(2)

\* C5 (SpecStream): run_rsync_stream never stalls: while it has not returned,
\* it or its child can take a step (standard error is drained independently
\* of standard output, so a full pipe never stops the child for good).
C5_NeverStalls ==
    rs_pc \in {"read_stdout", "read_stderr", "wait"} => ENABLED StreamNext

\* C6 (Spec): parallel_rsync_split waits for every worker and returns the
\* maximum of their exit codes, so its result is nonzero whenever a worker's
\* exit code is nonzero and 0 when all are 0.
C6_ParallelResult ==
    (first_ret # <<>> /\ Len(Workers) > 0) =>
        /\ \A i \in 1..Len(Workers) : Workers[i].state = "exited"
        /\ first_ret[1] = Max({Workers[i].rc : i \in 1..Len(Workers)})
        /\ (first_ret[1] = 0
              <=> \A i \in 1..Len(Workers) : Workers[i].rc = 0)

\* C7 (SpecDev): when the block device behind a path cannot be resolved (df
\* fails or prints no device line), is_ssd_for_path answers solid-state.
C7_FailSoftSolidState ==
    (dv_pc = "done" /\ dv_device = None) => dv_ssd = TRUE

\* C8 (SpecDev): whatever /sys/class/block lists, _block_name_from_device
\* maps nvme0n1p1 to nvme0n1 and sda1 to sda, and maps a bare device name
\* that is listed to itself.
C8_BlockNameNormalization ==
    dv_pc = "done" =>
        /\ dv_device = Dev(nvme0n1p1) => dv_block = nvme0n1
        /\ dv_device = Dev(sda1) => dv_block = sda
        /\ \A d \in DiskPool :
              (dv_device = Dev(d) /\ dv_env.listing.ok
                 /\ d \in dv_env.listing.names) => dv_block = d

\* C9 as stated (SpecCmd): for every mode value and pair of verdicts the
\* command holds --whole-file exactly when mode is "aggressive", or mode is
\* "fast" and both sides are solid-state.
C9_WholeFileByModeName ==
    bc_pc = "built" =>
        (HasFlag(bc_out, "--whole-file")
           <=> \/ bc_in.mode = "aggressive"
               \/ bc_in.mode = "fast" /\ bc_in.src_is_ssd /\ bc_in.dst_is_ssd)

\* C9 amended (SpecCmd): for every mode value and pair of verdicts the
\* command holds --whole-file exactly when mode is "aggressive", or mode is
\* "fast" or unrecognized (which is built as "fast") and both sides are
\* solid-state.
C9_WholeFile ==
    bc_pc = "built" =>
        (HasFlag(bc_out, "--whole-file")
           <=> \/ bc_in.mode = "aggressive"
               \/ bc_in.mode # "safe" /\ bc_in.src_is_ssd /\ bc_in.dst_is_ssd)

\* C9 witness: an unrecognized mode between two solid-state sides gets
\* --whole-file.
C9_Witness ==
    /\ bc_pc = "built" /\ bc_in.mode = "turbo"
    /\ bc_in.src_is_ssd /\ bc_in.dst_is_ssd
    /\ HasFlag(bc_out, "--whole-file")

\* C10 (SpecCmd): for every mode, recognized or not, and every pair of
\* verdicts, the command holds -a, -H, -A, -X, --numeric-ids,
\* --info=progress2, --partial and --inplace.
C10_BaseFlags ==
    bc_pc = "built" =>
        \A f \in {"-a", "-H", "-A", "-X", "--numeric-ids",
                  "--info=progress2", "--partial", "--inplace"} :
            HasFlag(bc_out, f)

\* C10 witness: a safe-mode command between two rotational sides, which has
\* the base flags and neither wrapper nor --whole-file.
C10_Witness ==
    /\ bc_pc = "built" /\ bc_in.mode = "safe"
    /\ ~bc_in.src_is_ssd /\ ~bc_in.dst_is_ssd
    /\ HasFlag(bc_out, "--inplace") /\ HasFlag(bc_out, "-a")
    /\ ~HasFlag(bc_out, "--whole-file") /\ bc_out[1] = RSYNC_BIN

\* the entries of the listing split in SpecSplit, in listing order
SplitEntriesOf == [k \in 1..Len(sp_listing) |-> path_join(SyncSrc, sp_listing[k])]

\* C11 (SpecSplit): for every listing of distinct children and every worker
\* count W >= 1, chunk i holds exactly the children at 0-based list indices
\* i, i+W, i+2W, ... in that order; the chunks are pairwise disjoint, hold
\* no child twice, and together hold exactly the children listed.
C11_RoundRobinPartition ==
    sp_pc = "split" =>
        LET W == sp_workers
            N == Len(sp_listing)
        IN  /\ Len(sp_chunks) = W
            /\ \A i \in 1..W :
                  /\ Len(sp_chunks[i])
                        = Cardinality({k \in 0..(N - 1) : k % W = i - 1})
                  /\ \A j \in 1..Len(sp_chunks[i]) :
                        sp_chunks[i][j]
                          = SplitEntriesOf[(i - 1) + (j - 1) * W + 1]
                  /\ Cardinality(Range(sp_chunks[i])) = Len(sp_chunks[i])
            /\ \A i, j \in 1..W :
                  i # j => Range(sp_chunks[i]) \cap Range(sp_chunks[j]) = {}
            /\ UNION {Range(sp_chunks[i]) : i \in 1..W}
                  = Range(SplitEntriesOf)

\* C11 witness: four children over three workers: the first chunk wraps
\* around and holds the first and the fourth child, the others one each.
C11_Witness ==
    /\ sp_pc = "split" /\ sp_workers = 3 /\ Len(sp_listing) = 4
    /\ sp_chunks[1] = <<SplitEntriesOf[1], SplitEntriesOf[4]>>
    /\ sp_chunks[2] = <<SplitEntriesOf[2]>>
    /\ sp_chunks[3] = <<SplitEntriesOf[3]>>

\* the transfer tasks still running
InFlight == {i \in 1..Len(tasks) : tasks[i].state = "running"}

\* C12 (Spec): no audit runs while a transfer task is in flight: the
\* post-transfer audit starts only after every launched task, workers and
\* retry included, has ended; and the retry is launched only after every
\* parallel worker has ended.
C12_VerificationOrdering ==
    /\ (pc \in {"pre_src", "pre_dst", "post_src", "post_dst"}
          \/ post_audit # <<>>) => InFlight = {}
    /\ \A i \in 1..Len(tasks) :
          tasks[i].launch = "retry" => InFlight \subseteq {i}

\* C12 witness: the final audit is about to start after two parallel
\* workers and a retry, all ended.
C12_Witness ==
    /\ pc = "post_src" /\ Len(tasks) = 3 /\ InFlight = {}
    /\ tasks[1].kind = "worker" /\ tasks[2].kind = "worker"
    /\ tasks[3].launch = "retry"

\* C13 (Spec): main exits with 0 exactly when sync_directories returns 0,
\* with 2 exactly when it returns 2, and with 1, after notifying, whenever
\* sync_directories raises; no exception escapes main and no other exit
\* code occurs.
C13_ExitCodes ==
    /\ pc # "escaped"
    /\ pc = "exited" =>
          /\ exit_code \in {<<0>>, <<1>>, <<2>>}
          /\ exit_code = <<0>> <=> result = Return(0)
          /\ exit_code = <<2>> <=> result = Return(2)
          /\ result.kind = "raise" =>
                /\ exit_code = <<1>>
                /\ notes[Len(notes)] = Note("Drive Sync: Fatal error")

\* C14 (Spec): when the source path does not exist, sync_directories sends
\* the error notification and raises FileNotFoundError; the destination
\* directory is never created, no audit runs and no transfer task is
\* launched.
C14_MissingSourceFatal ==
    /\ [](~src_exists =>
            /\ pc \in {"main", "sync_entry", "raised", "exited", "escaped"}
            /\ pre_audit = <<>> /\ post_audit = <<>> /\ tasks = <<>>
            /\ first_ret = <<>>
            /\ result \in {NoResult, Raise("FileNotFoundError")}
            /\ result.kind = "raise" =>
                  /\ Len(notes) >= 2
                  /\ notes[1] = Note("Drive Sync")
                  /\ notes[2] = Note("Drive Sync Error"))
    /\ [][~src_exists => dst_exists' = dst_exists]_vars

\* C14 witness: sync_directories has raised for a missing source, the
\* destination still absent.
C14_Witness ==
    /\ pc = "raised" /\ ~src_exists /\ ~dst_exists
    /\ result = Raise("FileNotFoundError")
    /\ notes = <<Note("Drive Sync"), Note("Drive Sync Error")>>

\* the tasks of the first transfer step
Firsts == SelectSeq(tasks, LAMBDA t : t.launch = "first")

\* both sides classified solid-state and more than one worker requested
BothSolidManyWorkers == src_ssd /\ dst_ssd /\ parallel_workers > 1

\* C15 (Spec): in a run that passes the pre-audit the first transfer step
\* is the parallel split exactly when both sides are classified solid-state
\* and more than one worker is requested; otherwise it is exactly one
\* single invocation.
C15_StrategySelection ==
    /\ \A i \in 1..Len(Firsts) :
          Firsts[i].kind = "worker" <=> BothSolidManyWorkers
    /\ pc \in {"par_submit", "par_collect"} => BothSolidManyWorkers
    /\ pc = "single_wait" => ~BothSolidManyWorkers
    /\ (first_ret # <<>> /\ ~BothSolidManyWorkers) =>
          Len(Firsts) = 1 /\ Firsts[1].kind = "single"

\* C15 witness: both sides solid-state and one worker requested: the first
\* step was a single invocation.
C15_Witness ==
    /\ first_ret # <<>> /\ src_ssd /\ dst_ssd /\ parallel_workers = 1
    /\ Len(Firsts) = 1 /\ Firsts[1].kind = "single"

\* C16 (SpecDev): is_rotational answers rotational exactly when the
\* rotational attribute of the block device can be read and is "1"; for
\* "0", any other value, an unreadable attribute or a null block name it
\* answers solid-state.
C16_RotationalFlag ==
    dv_rot # <<>> =>
        (dv_rot[1] <=>
            /\ dv_block \in DOMAIN dv_env.rot
            /\ dv_env.rot[dv_block] # None
            /\ strip(dv_env.rot[dv_block]) = <<"1">>)

\* C16 witness: the attribute of sda reads "2": not rotational.
C16_Witness ==
    /\ dv_pc = "rot_done" /\ dv_block = sda
    /\ dv_env.rot[sda] = <<"2", "\n">> /\ dv_rot = <<FALSE>>

\* C17 (Spec): when a run returned 0 after its final verification and the
\* program is run again with neither tree changed, the second run finds the
\* pre-audit equal and nonzero and returns 0 without launching a transfer.
C17_RerunIdempotent ==
    (prev_run # <<>> /\ prev_run[1].verified /\ prev_run[1].value = 0) =>
        /\ tasks = <<>> /\ first_ret = <<>> /\ post_audit = <<>>
        /\ result.kind # "raise"
        /\ pc \in {"main", "sync_entry", "pre_src", "pre_dst", "returned",
                   "exited", "escaped"}
        /\ Len(pre_audit) = 2 =>
              EqualNonzero(pre_audit) /\ result = Return(0)

\* C17 witness: the second run after a verified first run has returned 0
\* from the short circuit.
C17_Witness ==
    /\ prev_run # <<>> /\ prev_run[1].verified /\ prev_run[1].value = 0
    /\ pc = "returned" /\ result = Return(0) /\ tasks = <<>>
    /\ notes = <<Note("Drive Sync"), Note("Already synced")>>

\* C18 (SpecCmd): for a mode other than safe, fast and aggressive,
\* build_rsync_cmd returns exactly the command it returns for mode "fast"
\* with the same paths and verdicts.
C18_UnrecognizedIsFast ==
    (bc_pc = "built" /\ bc_in.mode \notin {"safe", "fast", "aggressive"}) =>
        bc_out = build_rsync_cmd(bc_in.src, bc_in.dst, bc_in.src_is_ssd,
                                 bc_in.dst_is_ssd, "fast")

\* C18 witness: mode "turbo" towards a rotational destination carries the
\* wrapper and flags of fast mode.
C18_Witness ==
    /\ bc_pc = "built" /\ bc_in.mode = "turbo" /\ ~bc_in.dst_is_ssd
    /\ bc_out[2] = Tok("-c2") /\ bc_out[6] = Tok("-5")
    /\ HasFlag(bc_out, "--no-inc-recursive")
    /\ ~HasFlag(bc_out, "--whole-file")

\* the words of a command before the rsync binary
WrapperOf(cmd) == Slice(cmd, 1, IndexOf(cmd, RSYNC_BIN) - 1)

\* C19 (SpecCmd): whatever the verdicts, safe mode has no wrapper and no
\* --no-inc-recursive; fast mode has the wrapper ionice -c2 -n0 nice -n -5
\* and --no-inc-recursive; aggressive mode has the wrapper ionice -c1 -n0
\* nice -n -10 and --no-inc-recursive; the wrapper comes before rsync.
C19_WrapperByMode ==
    (bc_pc = "built" /\ bc_in.mode \in {"safe", "fast", "aggressive"}) =>
        /\ RSYNC_BIN \in Range(bc_out)
        /\ WrapperOf(bc_out) =
              (CASE bc_in.mode = "safe" -> <<>>
                 [] bc_in.mode = "fast" ->
                      <<Tok("ionice"), Tok("-c2"), Tok("-n0"), Tok("nice"),
                        Tok("-n"), Tok("-5")>>
                 [] bc_in.mode = "aggressive" ->
                      <<Tok("ionice"), Tok("-c1"), Tok("-n0"), Tok("nice"),
                        Tok("-n"), Tok("-10")>>)
        /\ HasFlag(bc_out, "--no-inc-recursive") <=> bc_in.mode # "safe"

\* C19 witness: an aggressive command between two rotational sides: the
\* real-time wrapper, then rsync.
C19_Witness ==
    /\ bc_pc = "built" /\ bc_in.mode = "aggressive"
    /\ ~bc_in.src_is_ssd /\ ~bc_in.dst_is_ssd
    /\ bc_out[2] = Tok("-c1") /\ bc_out[6] = Tok("-10")
    /\ bc_out[7] = RSYNC_BIN

\* C20 (SpecCmd): whatever the number of trailing slashes of the source and
\* destination given, the last two words of the command are the source
\* and the destination, each with exactly one trailing slash, and
\* normalizing them again changes nothing.
C20_TrailingSlash ==
    bc_pc = "built" =>
        LET n == Len(bc_out)
        IN  /\ n >= 2
            /\ bc_out[n - 1] = [stem |-> bc_in.src.stem, slashes |-> 1]
            /\ bc_out[n] = [stem |-> bc_in.dst.stem, slashes |-> 1]
            /\ plus_slash(rstrip_slash(bc_out[n - 1])) = bc_out[n - 1]
            /\ plus_slash(rstrip_slash(bc_out[n])) = bc_out[n]

\* C20 witness: a source given with two trailing slashes and a destination
\* given with none both end in one slash in the command.
C20_Witness ==
    /\ bc_pc = "built" /\ bc_in.src.slashes = 2 /\ bc_in.dst.slashes = 0
    /\ bc_out[Len(bc_out) - 1].slashes = 1
    /\ bc_out[Len(bc_out)].slashes = 1
    /\ bc_out[Len(bc_out)].stem = bc_in.dst.stem

\* the commands a run launches, as its audits, verdicts, listing and exit
\* codes alone determine them
SingleCmd == build_rsync_cmd(SyncSrc, SyncDst, src_ssd, dst_ssd, mode)
NonEmptyChunks == SelectSeq(chunks, LAMBDA c : c # <<>>)
FirstStepCmds ==
    IF BothSolidManyWorkers
    THEN [i \in 1..Len(NonEmptyChunks) |->
              worker_cmd(SyncSrc, SyncDst, NonEmptyChunks[i], src_ssd,
                         dst_ssd, mode)]
    ELSE <<SingleCmd>>
ExpectedCmds ==
    FirstStepCmds \o (IF first_ret[1] # 0 THEN <<SingleCmd>> ELSE <<>>)

\* C21 (SpecNotify): whether notify-send works or fails at each call, no
\* exception comes out of send_notification, and the value sync_directories
\* returns and the commands it launches are those the audits, verdicts and
\* exit codes determine, the same with a failing channel as with a working
\* one.
C21_NotificationsBestEffort ==
    /\ result.kind = "raise" => result.exc # "NotifyError"
    /\ pc = "escaped" => result = NoResult
    /\ (result.kind = "return" /\ Len(post_audit) = 2) =>
          /\ result.value = (IF EqualNonzero(post_audit) THEN 0 ELSE 2)
          /\ [i \in 1..Len(tasks) |-> tasks[i].cmd] = ExpectedCmds
    /\ (result.kind = "return" /\ post_audit = <<>>) =>
          result.value = 0 /\ tasks = <<>>

\* C21 witness: a run in which notify-send failed returned 0 after two
\* parallel workers and the final verification.
C21_Witness ==
    /\ pc = "returned" /\ notify_failed /\ Len(post_audit) = 2
    /\ result = Return(0) /\ Len(tasks) = 2
    /\ tasks[1].kind = "worker" /\ tasks[2].kind = "worker"

\* C22 (SpecAudit): whenever the find query fails, get_size_and_count takes
\* the count from the directory walk, and that count is the number of
\* regular files under the path, directories and symbolic links excluded.
C22_CountFallback ==
    (au_pc = "done" /\ ~find_ok(au_tree, au_env)) =>
        /\ ~au_out.raised
        /\ au_out.value[2] =
              (IF au_tree.exists /\ au_tree.readable THEN au_tree.files ELSE 0)

\* C23 (SpecAudit): on every path, existing, absent or unreadable, and
\* whichever of du, find, the walk and the per-file size calls fail,
\* get_size_and_count returns a pair of numbers without raising; a metric
\* whose query and walk both fail is 0, and an absent path gives (0, 0).
C23_AuditNeverFatal ==
    au_pc = "done" =>
        LET unlisted == ~au_tree.exists \/ ~au_tree.readable
        IN  /\ ~au_out.raised
            /\ Len(au_out.value) = 2
            /\ au_out.value[1] \in Nat /\ au_out.value[2] \in Nat
            /\ (~au_env.du_runs /\ unlisted) => au_out.value[1] = 0
            /\ (~au_env.find_runs /\ unlisted) => au_out.value[2] = 0
            /\ ~au_tree.exists => au_out.value = <<0, 0>>

\* C23 witness: du cannot be run and the size of the only regular file
\* cannot be read: the audit returns size 0 and the count of find.
C23_Witness ==
    /\ au_pc = "done" /\ au_tree.exists /\ au_tree.readable
    /\ ~au_env.du_runs /\ au_env.find_runs /\ au_env.stat_fails = 1
    /\ au_tree.files = 1 /\ au_tree.file_links = 0
    /\ au_out = [raised |-> FALSE, value |-> <<0, 1>>]

\* C24 (Spec): a run whose source audits to size 0 never succeeds: with
\* size 0 at the first audit it does not stop at the short circuit but runs
\* the first transfer step; with size 0 at the final audit as well it
\* returns 2, even when every rsync exited 0 and the destination's audit
\* equals the source's.  The first step starts an rsync unless it is the
\* parallel one and the source has no top-level entry.
C24_ZeroSizeNeverSucceeds ==
    (Len(pre_audit) = 2 /\ pre_audit[1][1] = 0) =>
        /\ ~(result.kind = "return" /\ post_audit = <<>>)
        /\ (result.kind # "raise" /\ pc \notin {"classify", "strategy"})
             => \/ pc \in {"par_submit", "par_collect", "single_wait"}
                \/ first_ret # <<>>
        /\ first_ret # <<>> =>
              \/ tasks # <<>>
              \/ src_ssd /\ dst_ssd /\ parallel_workers > 1 /\ chunks = <<>>
        /\ (Len(post_audit) = 2 /\ post_audit[1][1] = 0) =>
              /\ first_ret # <<>>
              /\ result = Return(2)

\* C24 witness: the source holds one empty file; the single rsync exits 0,
\* the destination then audits as the source does, and the run returns 2.
C24_Witness ==
    /\ pc = "exited" /\ exit_code = <<2>>
    /\ Len(pre_audit) = 2 /\ pre_audit[1] = <<0, 1>>
    /\ post_audit = <<(<<0, 1>>), (<<0, 1>>)>>
    /\ Len(tasks) = 1
    /\ tasks[1].state = "exited" /\ tasks[1].rc = 0
    /\ result = Return(2)

====
